---- MODULE Spec2Model ----
(***************************************************************************)
(* Model of src/main.py: the Pi auto-forwarder.  main() is a single        *)
(* threaded polling loop; every cycle reads the spendable balance and the  *)
(* claimable ("locked") balances, forwards spendable funds (forward_all),  *)
(* strikes every balance whose unlock is at most 0.5 s away                *)
(* (lightning_claim_and_forward), and then sleeps 1 s, 5 s or 30 s.        *)
(*                                                                         *)
(* Units.  Time is counted in quarter seconds (ticks): every threshold of  *)
(* the code is a multiple of 0.5 s and every sleep a whole number of       *)
(* seconds, so the four residues 0, 0.25, 0.5, 0.75 of a second stand for  *)
(* every real offset.  Amounts are counted in stroops (10^-7 Pi, the unit  *)
(* of the amounts Horizon reports); round(x, 6) is rounding to a multiple  *)
(* of 10 stroops.  Unlock times are kept relative to the clock: delta =    *)
(* unlock_time - now, so a sleep of t lowers every delta by t.             *)
(*                                                                         *)
(* Specifications.  Spec is the loop over ledgers of the usual records;    *)
(* FairSpec adds fairness of the loop; ParseSpec is the loop over records  *)
(* whose claimant predicates take every shape get_locked_balances tells    *)
(* apart; BalanceSpec applies get_available_balance and forward_all to the *)
(* accounts Horizon can report; FormatSpec applies format_time_remaining.  *)
(***************************************************************************)
EXTENDS Integers, Naturals, Sequences, FiniteSets, TLC

(* ---------------- bounds of the model ---------------- *)

\* Number of claimable balances the account can hold.
NumBalances == 2

\* Deltas are followed down to -MaxPast ticks; the code compares delta only
\* with 0.5 s, 0 s and 30 s, so every older delta behaves like -MaxPast.
MaxPast == 8

\* Initial deltas cover every tick from -MaxPast up to FineStart ticks.
FineStart == 48

\* Accounts have up to MaxSigners signers and MaxSubentries subentries.
MaxSigners == 3

MaxSubentries == 2

\* format_time_remaining is applied to every whole number of seconds from
\* -5 to MaxSeconds, and to a few larger ones.
MaxSeconds == 130

\* An "and" predicate holds up to MaxBranches conditions.
MaxBranches == 2

\* The timestamp T2 of a record precedes its timestamp T by EarlierBy ticks.
EarlierBy == 8

(* ---------------- constants of the program ---------------- *)

SAFE_WALLET == "SAFE_WALLET"

\* unlock_time = None
NoneT == -999

\* thresholds on delta, in ticks
StrikeThreshold == 2
ArmThreshold == 120
LightningLimit == 40
SpeedLimit == 240

\* sleeps, in ticks
LightningSleep == 4
SpeedSleep == 20
IdleSleep == 120
BackoffSleep == 120
ConfirmPause == 4

\* amounts, in stroops
DustThreshold == 100000
transaction_fee == 100000
SponsorLimit == 200000
MinFeeBuffer == 100000
base_reserve == 5000000

\* 0.05 = 1/BufferDen; 0.95 = KeepNum/BufferDen
BufferDen == 20
KeepNum == 19

\* base fees (stroops per operation) and validity timeouts (seconds)
ClaimForwardFee == 300000
ClaimOnlyFee == 200000
ForwardFee == 100000
ClaimForwardTimeout == 15
ClaimOnlyTimeout == 10
ForwardTimeout == 30

(* ---------------- inputs ---------------- *)

BalanceIds == 1..NumBalances

\* Spendable balances Horizon can report: 0.01, 0.015, 0.02, 0.1, 1.0 Pi.
\* None of them, and none of ClaimAmounts, puts round() on a tie, where the
\* float the code rounds may fall on either side.
AvailSet == {100000, 150000, 200000, 1000000, 10000000}

\* Amounts of claimable balances: 0.005, 0.0100004, 0.0100006, 0.1, 1.0, 10 Pi.
ClaimAmounts == {50000, 100004, 100006, 1000000, 10000000, 100000000}

\* Initial deltas beyond the fine range: 45 s, 60 s, 60.25 s, 75.5 s, 90.75 s.
CoarseStarts == {180, 240, 241, 302, 363}

StartDeltas == ((0 - MaxPast)..FineStart) \cup CoarseStarts

Max(a, b) == IF a >= b THEN a ELSE b

(* ---------------- arithmetic ---------------- *)

\* round(n/d stroops, 6): the nearest multiple of 10 stroops, ties to even
\* (Python's round).  n >= 0, d > 0.
Round6(n, d) ==
    LET q == n \div (10 * d)
        r == n % (10 * d)
    IN  IF 2 * r < 10 * d THEN 10 * q
        ELSE IF 2 * r > 10 * d THEN 10 * (q + 1)
        ELSE IF q % 2 = 0 THEN 10 * q ELSE 10 * (q + 1)

(* ---------------- transactions ---------------- *)

ClaimOp(balance_id) ==
    [type |-> "claim", balance_id |-> balance_id, destination |-> "", amount |-> 0]

PaymentOp(to_addr, amount) ==
    [type |-> "payment", balance_id |-> 0, destination |-> to_addr, amount |-> amount]

\* A built transaction: its operations, fee and timeout, the keys that signed
\* it, in order, and whether server.submit_transaction was called with it.
Tx(ops, base_fee, timeout, signers, submitted) ==
    [ops |-> ops, base_fee |-> base_fee, timeout |-> timeout,
     signers |-> signers, submitted |-> submitted]

\* Mutant: the sponsor key never signs.
Signers_KpOnly(sponsor_kp) == <<"kp">>

\* tx.sign(kp); if sponsor_kp: tx.sign(sponsor_kp)
Signers(sponsor_kp) == IF sponsor_kp THEN <<"kp", "sponsor">> ELSE <<"kp">>

\* What one call of forward_all or lightning_claim_and_forward did:
\*   id      the balance_id argument (0 for forward_all)
\*   nested  forward_all called from the claim-only fallback
\*   amount  claim_amount, or bal for forward_all (0 when not obtained)
\*   info    outcome of the amount lookup: "ok", "non200", "exc", or "none"
\*           when the call did not get that far
\*   tx      the transaction built (a sequence of length 0 or 1)
\*   exc     the call raised to its caller
\*   fault   some network or library call inside it failed
\*   result  outcome of the submission: "none", "success", "failed", "raise"
\*   delta   the balance's delta in the cycle of the call (0 for forward_all)
Call(fn, id, nested, amount, info, tx, exc, fault, result, delta) ==
    [fn |-> fn, id |-> id, nested |-> nested, amount |-> amount, info |-> info,
     tx |-> tx, exc |-> exc, fault |-> fault, result |-> result, delta |-> delta]

SubmitResults == {"success", "failed", "raise"}

LookupFailures == {"non200", "exc"}

(* ---------------- forward_all ---------------- *)

\* Mutant: the 0.02 floor of the normal forward is forgotten.
NormalForwardAmount_NoFloor(bal) == Round6(KeepNum * bal, BufferDen)

\* Mutant: forward_all keeps max(0.01, 5%) as lightning_claim_and_forward does.
NormalForwardAmount_Policy(bal) ==
    IF bal > SponsorLimit
    THEN Round6(BufferDen * bal - Max(BufferDen * MinFeeBuffer, bal), BufferDen)
    ELSE 0

\* amt = round(bal * 0.95, 6) if bal > 0.02 else 0
NormalForwardAmount(bal) ==
    IF bal > SponsorLimit THEN Round6(KeepNum * bal, BufferDen) ELSE 0

\* build_sponsored_transaction: one payment, signed by source and sponsor.
build_sponsored_transaction(sponsor_kp, to_addr, amount) ==
    Tx(<<PaymentOp(to_addr, amount)>>, ForwardFee, ForwardTimeout,
       Signers(sponsor_kp), FALSE)

\* Mutant: forward_all submits whatever the dry-run flag says.
ForwardSubmit_Always(nested, bal, tx, dry) ==
    {Call("forward_all", 0, nested, bal, "ok",
          <<[tx EXCEPT !.submitted = TRUE]>>, r = "raise", r # "success", r, 0)
     : r \in SubmitResults}

\* The tail of forward_all once tx is built and signed: DRY_RUN or submit.
\* server.submit_transaction is not guarded: a raise leaves forward_all.
ForwardSubmit(nested, bal, tx, dry) ==
    IF dry
    THEN {Call("forward_all", 0, nested, bal, "ok", <<tx>>, FALSE, FALSE, "none", 0)}
    ELSE {Call("forward_all", 0, nested, bal, "ok",
               <<[tx EXCEPT !.submitted = TRUE]>>, r = "raise", r # "success", r, 0)
          : r \in SubmitResults}

\* forward_all with bal the spendable balance it reads.
ForwardWithBalance(nested, bal, to_addr, sponsor_kp, dry) ==
    IF bal <= transaction_fee
    THEN {Call("forward_all", 0, nested, bal, "ok", <<>>, FALSE, FALSE, "none", 0)}
    ELSE IF sponsor_kp /\ bal < SponsorLimit
    THEN \* build_sponsored_transaction may raise: caught, forward_all returns
         {Call("forward_all", 0, nested, bal, "ok", <<>>, FALSE, TRUE, "none", 0)}
         \cup ForwardSubmit(nested, bal,
                 build_sponsored_transaction(sponsor_kp, to_addr, bal), dry)
    ELSE IF NormalForwardAmount(bal) <= 0
    THEN {Call("forward_all", 0, nested, bal, "ok", <<>>, FALSE, FALSE, "none", 0)}
    ELSE \* building or signing may raise: not caught
         {Call("forward_all", 0, nested, bal, "ok", <<>>, TRUE, TRUE, "none", 0)}
         \cup ForwardSubmit(nested, bal,
                 Tx(<<PaymentOp(to_addr, NormalForwardAmount(bal))>>,
                    ForwardFee, ForwardTimeout, <<"kp">>, FALSE), dry)

\* Every way one call forward_all(kp, to_addr, sponsor_kp) can go.  Bals is
\* the set of balances the account can hold at the time of the call.
forward_all(nested, Bals, to_addr, sponsor_kp, dry) ==
    \* server.load_account raises
    {Call("forward_all", 0, nested, 0, "none", <<>>, TRUE, TRUE, "none", 0)}
    \* get_available_balance: non-200 or RequestException give 0.0
    \cup {Call("forward_all", 0, nested, 0, "non200", <<>>, FALSE, TRUE, "none", 0)}
    \* get_available_balance raises on a malformed answer
    \cup {Call("forward_all", 0, nested, 0, "exc", <<>>, TRUE, TRUE, "none", 0)}
    \cup UNION {ForwardWithBalance(nested, bal, to_addr, sponsor_kp, dry) : bal \in Bals}

(* ---------------- lightning_claim_and_forward ---------------- *)

\* Mutant: the buffer is 5% of the amount, without the 0.01 minimum.
ForwardAmount_Flat(claim_amount) == Round6(KeepNum * claim_amount, BufferDen)

\* transaction_fee_buffer = max(0.01, claim_amount * 0.05)
\* forward_amount = round(max(0, claim_amount - transaction_fee_buffer), 6)
\* computed in twentieths of a stroop.
ForwardAmount(claim_amount) ==
    Round6(Max(0, BufferDen * claim_amount
                  - Max(BufferDen * MinFeeBuffer, claim_amount)), BufferDen)

\* Mutant: the claim-only transaction is built whatever the amount.
LightningTx_ClaimOnly(balance_id, to_addr, claim_amount, sponsor_kp) ==
    Tx(<<ClaimOp(balance_id)>>,
       ClaimOnlyFee, ClaimOnlyTimeout, Signers(sponsor_kp), FALSE)

\* Mutant: the claim+forward transaction takes the fee and timeout of the
\* claim-only one.
LightningTx_CheapPair(balance_id, to_addr, claim_amount, sponsor_kp) ==
    IF claim_amount > 0
    THEN Tx(<<ClaimOp(balance_id), PaymentOp(to_addr, ForwardAmount(claim_amount))>>,
            ClaimOnlyFee, ClaimOnlyTimeout, Signers(sponsor_kp), FALSE)
    ELSE Tx(<<ClaimOp(balance_id)>>,
            ClaimOnlyFee, ClaimOnlyTimeout, Signers(sponsor_kp), FALSE)

\* The transaction lightning_claim_and_forward builds and signs.
LightningTx(balance_id, to_addr, claim_amount, sponsor_kp) ==
    IF claim_amount > 0
    THEN Tx(<<ClaimOp(balance_id), PaymentOp(to_addr, ForwardAmount(claim_amount))>>,
            ClaimForwardFee, ClaimForwardTimeout, Signers(sponsor_kp), FALSE)
    ELSE Tx(<<ClaimOp(balance_id)>>,
            ClaimOnlyFee, ClaimOnlyTimeout, Signers(sponsor_kp), FALSE)

\* The tail of lightning_claim_and_forward once claim_amount is settled.
\* Each outcome is a sequence of calls: the claim attempt itself, followed
\* by the forward_all the claim-only fallback runs after a successful claim
\* and a pause of 1 s.  A raise inside that forward_all is caught by the try
\* around the submit, so it does not leave lightning_claim_and_forward.
\* That forward_all reads a balance that holds the claimed amt, or not yet.
LightningWithAmount(balance_id, amt, delta, to_addr, sponsor_kp, dry, claim_amount, info) ==
    LET tx == LightningTx(balance_id, to_addr, claim_amount, sponsor_kp)
        fault == info # "ok"
        me(txs, exc, flt, result) ==
            Call("lightning", balance_id, FALSE, claim_amount, info, txs,
                 exc, flt, result, delta)
    IN  IF claim_amount > 0 /\ ForwardAmount(claim_amount) <= 0
        THEN {<<me(<<>>, FALSE, fault, "none")>>}
        ELSE \* building or signing raises: not caught
             {<<me(<<>>, TRUE, TRUE, "none")>>}
             \cup (IF dry
                   THEN {<<me(<<tx>>, FALSE, fault, "none")>>}
                   ELSE LET sent == [tx EXCEPT !.submitted = TRUE]
                        IN  {<<me(<<sent>>, FALSE, TRUE, r)>> : r \in {"failed", "raise"}}
                            \cup (IF claim_amount > 0
                                  THEN {<<me(<<sent>>, FALSE, fault, "success")>>}
                                  ELSE {<<me(<<sent>>, FALSE, fault \/ f.fault, "success"), f>>
                                        : f \in forward_all(TRUE, {0, amt}, to_addr,
                                                            sponsor_kp, dry)}))

\* Every way one call lightning_claim_and_forward(kp, balance_id, to_addr,
\* sponsor_kp) can go, for a balance whose amount on the ledger is amt.
lightning_claim_and_forward(balance_id, amt, delta, to_addr, sponsor_kp, dry) ==
    \* server.load_account raises: not caught
    {<<Call("lightning", balance_id, FALSE, 0, "none", <<>>, TRUE, TRUE, "none", delta)>>}
    \* the amount lookup answers 200
    \cup LightningWithAmount(balance_id, amt, delta, to_addr, sponsor_kp, dry, amt, "ok")
    \* the amount lookup answers non-200 or raises: claim_amount stays 0
    \cup UNION {LightningWithAmount(balance_id, amt, delta, to_addr, sponsor_kp, dry, 0, i)
                : i \in LookupFailures}

(* ---------------- get_available_balance ---------------- *)

\* The account as Horizon returns it: the native balance in stroops, the
\* number of signers and num_subentries.
Account(total_balance, signers, num_subentries) ==
    [total_balance |-> total_balance, signers |-> signers,
     num_subentries |-> num_subentries]

\* Native balances Horizon can report, in stroops: 0, 0.5, 1.0, 1.005, 1.01,
\* 1.0100209, 1.015, 1.02, 1.1, 1.5, 2.0, 2.015, 2.6, 11 Pi.  1.0100209 has
\* seven decimals, and the float 1.0100209 - 1.0 prints as 0.0100209.
Totals ==
    {0, 5000000, 10000000, 10050000, 10100000, 10100209, 10150000, 10200000,
     11000000, 15000000, 20000000, 20150000, 26000000, 110000000}

\* Accounts Horizon can report: the master key and up to MaxSigners - 1 more
\* signers, up to MaxSubentries subentries.
Accounts ==
    {Account(t, sg, sub) : t \in Totals, sg \in 1..MaxSigners, sub \in 0..MaxSubentries}

\* Mutant: the master key is counted as a subentry.
total_reserves_Master(data) ==
    2 * base_reserve + (data.signers + data.num_subentries) * base_reserve

\* account_reserves + subentry_reserves
total_reserves(data) ==
    2 * base_reserve + (data.signers - 1 + data.num_subentries) * base_reserve

\* spendable = max(0.0, total_balance - total_reserves)
spendable(data) == Max(0, data.total_balance - total_reserves(data))

\* What get_available_balance read: nothing yet, an account, or no account
\* on a non-200 answer or a RequestException.
NoAccount == [st |-> "none", data |-> Account(0, 0, 0)]

\* Mutant: soonest is kept from the cycle before.
ResetSoonest_Keep(previous) == previous

\* soonest = None at the start of the cycle's scan.
ResetSoonest(previous) == NoneT

(* ---------------- format_time_remaining ---------------- *)

\* One number with its unit, as format_time_remaining prints it.
Part(n, unit) == [n |-> n, unit |-> unit]

\* Mutant: units that are zero are left out.
format_time_remaining_Sparse(secs) ==
    IF secs <= 0 THEN <<Part(0, "READY NOW!")>>
    ELSE SelectSeq(<<Part(secs \div 86400, "d"), Part((secs % 86400) \div 3600, "h"),
                     Part((secs % 3600) \div 60, "m"), Part(secs % 60, "s")>>,
                   LAMBDA p : p.n > 0)

\* format_time_remaining(seconds) for a whole number of seconds: the parts
\* of the string it returns, in order.
format_time_remaining(secs) ==
    IF secs <= 0 THEN <<Part(0, "READY NOW!")>>
    ELSE LET days == secs \div 86400
             hours == (secs % 86400) \div 3600
             minutes == (secs % 3600) \div 60
             s == secs % 60
         IN  IF days > 0
             THEN <<Part(days, "d"), Part(hours, "h"), Part(minutes, "m"), Part(s, "s")>>
             ELSE IF hours > 0
             THEN <<Part(hours, "h"), Part(minutes, "m"), Part(s, "s")>>
             ELSE IF minutes > 0
             THEN <<Part(minutes, "m"), Part(s, "s")>>
             ELSE <<Part(s, "s")>>

(* ---------------- claimant predicates ---------------- *)

\* A claimant's predicate as Horizon returns it, one key per dict, written
\* as the key followed by its value:
\*   {"unconditional": true}, {"abs_before": ts}, {"not": p},
\*   {"and": [p, ...]}, {"or": [p, ...]}.
Unconditional == <<"unconditional">>

Before(ts) == <<"abs_before", ts>>

Not(p) == <<"not", p>>

And(ps) == <<"and", ps>>

Or(ps) == <<"or", ps>>

\* Timestamps: "T" and "T2" are well-formed ISO timestamps, T2 the earlier
\* one; "bad" is a string fromisoformat rejects; "" is the empty string.
WellFormed == {"T", "T2"}

Timestamps == WellFormed \cup {"bad", ""}

\* "not" in p and isinstance(p["not"], dict) and "abs_before" in p["not"]
IsNotBefore(p) == p[1] = "not" /\ p[2][1] = "abs_before"

\* Mutant: the loop over the conditions has no break, the last match wins.
RECURSIVE FirstNotBefore_Last(_)
FirstNotBefore_Last(conditions) ==
    IF conditions = <<>> THEN ""
    ELSE LET c == conditions[Len(conditions)]
         IN  IF IsNotBefore(c) THEN c[2][2]
             ELSE FirstNotBefore_Last(SubSeq(conditions, 1, Len(conditions) - 1))

\* for condition in and_conditions: the abs_before of the first condition
\* that is a negated abs_before, then break ("" when there is none).
RECURSIVE FirstNotBefore(_)
FirstNotBefore(conditions) ==
    IF conditions = <<>> THEN ""
    ELSE IF IsNotBefore(Head(conditions)) THEN Head(conditions)[2][2]
    ELSE FirstNotBefore(Tail(conditions))

\* The abs_before get_locked_balances extracts from one predicate; "" stands
\* for None as well as for an empty string: `if abs_before:` skips both.
abs_before(predicate) ==
    IF IsNotBefore(predicate) THEN predicate[2][2]
    ELSE IF predicate[1] = "abs_before" THEN predicate[2]
    ELSE IF predicate[1] = "and" THEN FirstNotBefore(predicate[2])
    ELSE ""

\* Mutant: a timestamp that cannot be parsed is taken as a time.
ParseTime_Lenient(ts) == "T"

\* datetime.fromisoformat(ts.replace("Z", "+00:00")); except ValueError: None
ParseTime(ts) == IF ts \in WellFormed THEN ts ELSE "None"

\* unlock_time after the loop over the claimants, starting from unlock_time:
\* every claimant with an abs_before overwrites it.
RECURSIVE UnlockOver(_, _)
UnlockOver(claimants, unlock_time) ==
    IF claimants = <<>> THEN unlock_time
    ELSE UnlockOver(Tail(claimants),
                    IF abs_before(Head(claimants)) # ""
                    THEN ParseTime(abs_before(Head(claimants)))
                    ELSE unlock_time)

(* ---------------- state ---------------- *)

VARIABLES
    sponsor_kp,          \* TRUE when a fee sponsor key was supplied
    DRY_RUN,             \* the dry-run flag
    ledger,              \* the account's claimable balances, by balance id
    pc,                  \* position of main: "fetch", "scan", "except"
    avail,               \* main's avail, until the step after its last read (line 340)
    locked,              \* main's locked
    i,                   \* index of the balance the for loop is at
    soonest,             \* main's soonest, as a delta (NoneT for None)
    soonest_balance_id,  \* main's soonest_balance_id (0 for None)
    calls,               \* the calls the last step made
    fault,               \* a network or library call failed in the last step
    attempted,           \* balance ids handed to lightning_claim_and_forward in the
                         \* cycle under way
    errAt,               \* where this cycle's exception was raised ("none" if none)
    slept,               \* ticks the last sleep took (0 before the first)
    first,               \* per balance, the delta of its first claim attempt
    account,             \* the answer get_available_balance was applied to
    seconds,             \* the argument of format_time_remaining
    text                 \* what format_time_remaining returned (<<>> before)

vars == <<sponsor_kp, DRY_RUN, ledger, pc, avail, locked, i, soonest,
          soonest_balance_id, calls, fault, attempted, errAt, slept, first,
          account, seconds, text>>

\* first[id] is NoneT while the balance has not been handed to
\* lightning_claim_and_forward, and Excused when a first attempt inside the
\* strike window cannot be asked of the loop: the balance was already past
\* the window at the start, or a call failed before its first attempt.
Excused == NoneT + 1

\* A claimable balance on the ledger: its amount, its claimants' predicates,
\* and unlock, the timestamp "T" as a delta to now (NoneT when no predicate
\* of it holds a timestamp).
Absent == [present |-> FALSE, amt |-> 0, unlock |-> NoneT, claimants |-> <<>>]

Claimable(amt, unlock, claimants) ==
    [present |-> TRUE, amt |-> amt, unlock |-> unlock, claimants |-> claimants]

\* The usual record: one claimant, who can claim once T is past, or at any
\* time.
Balance(amt, unlock) ==
    Claimable(amt, unlock,
              IF unlock = NoneT THEN <<Unconditional>> ELSE <<Not(Before("T"))>>)

\* The timestamp t of record b as a delta to now.
DeltaOf(b, t) ==
    IF t = "None" \/ b.unlock = NoneT THEN NoneT
    ELSE IF t = "T" THEN b.unlock
    ELSE Max(b.unlock - EarlierBy, 0 - MaxPast)

\* The unlock_time get_locked_balances gives record b, as a delta.
UnlockDelta(b) == DeltaOf(b, UnlockOver(b.claimants, "None"))

\* get_locked_balances on a 200 answer: one (amt, unlock_time, balance_id)
\* per record, in the order of the answer.  unlock_time is given as delta.
RECURSIVE LockedFrom(_, _)
LockedFrom(l, id) ==
    IF id > NumBalances THEN <<>>
    ELSE (IF l[id].present
          THEN <<[amt |-> l[id].amt, unlock_time |-> UnlockDelta(l[id]),
                  balance_id |-> id]>>
          ELSE <<>>) \o LockedFrom(l, id + 1)

get_locked_balances(l) == LockedFrom(l, 1)

\* The clock moves on by t ticks: every delta drops by t.
Elapse(l, t) ==
    [id \in BalanceIds |->
        IF l[id].present /\ l[id].unlock # NoneT
        THEN [l[id] EXCEPT !.unlock = Max(l[id].unlock - t, 0 - MaxPast)]
        ELSE l[id]]

\* Mutant: the claim-only fallback calls forward_all without the pause.
RECURSIVE AfterCalls_NoPause(_, _)
AfterCalls_NoPause(l, cs) ==
    IF cs = <<>> THEN l
    ELSE LET c == Head(cs)
             l1 == IF c.fn = "lightning" /\ c.result = "success"
                   THEN [l EXCEPT ![c.id] = Absent]
                   ELSE l
         IN  AfterCalls_NoPause(l1, Tail(cs))

\* The ledger after the calls cs: a successful claim consumes its balance,
\* and the claim-only fallback pauses 1 s before its forward_all.
RECURSIVE AfterCalls(_, _)
AfterCalls(l, cs) ==
    IF cs = <<>> THEN l
    ELSE LET c == Head(cs)
             l1 == IF c.fn = "lightning" /\ c.result = "success"
                   THEN [l EXCEPT ![c.id] = Absent]
                   ELSE IF c.nested THEN Elapse(l, ConfirmPause) ELSE l
         IN  AfterCalls(l1, Tail(cs))

\* first after a step in which a call failed (failed) on ledger l.
Spoil(f, l, failed) ==
    [id \in BalanceIds |->
        IF failed /\ l[id].present /\ UnlockDelta(l[id]) # NoneT /\ f[id] = NoneT
        THEN Excused ELSE f[id]]

(* ---------------- main ---------------- *)

\* Initial ledgers.  The first balance takes every amount close to its unlock
\* time and every initial delta with one amount; the others take a few
\* shapes: absent, struck at once, unlocking later.  A balance without
\* unlock time is the first one.
NearStarts == {0, 1, 3}

AmountBalances == {Balance(a, u) : a \in ClaimAmounts, u \in NearStarts}

TimingBalances == {Balance(100000000, u) : u \in StartDeltas \cup {NoneT}}

OtherBalances ==
    {Absent, Balance(10000000, 1), Balance(1000000, 22)}

InitLedgers(First, Others) ==
    {[l EXCEPT ![1] = b] : l \in [BalanceIds -> Others], b \in First}

TypeOK ==
    /\ sponsor_kp \in BOOLEAN
    /\ DRY_RUN \in BOOLEAN
    /\ pc \in {"fetch", "scan", "except"}
    /\ avail \in AvailSet \cup {0}
    /\ i \in 1..(NumBalances + 1)
    /\ attempted \subseteq BalanceIds

\* Outcomes of get_available_balance: a 200 answer with a balance, 0.0 on a
\* non-200 answer or a RequestException, or a raise on a malformed answer.
AvailOutcomes ==
    {[st |-> "ok", v |-> a] : a \in AvailSet}
    \cup {[st |-> "non200", v |-> 0], [st |-> "raise", v |-> 0]}

\* Outcomes of get_locked_balances: the records, [] on a non-200 answer or
\* a RequestException, or a raise on a malformed record.
LockedOutcomes == {"ok", "non200", "raise"}

\* The head of a cycle, up to the for loop:
\*   avail = get_available_balance(...); locked = get_locked_balances(...)
\*   if avail > 0.01: forward_all(kp, SAFE_WALLET, sponsor_kp)
\*   soonest = None; soonest_balance_id = None; current_time = now
\* forward_all reads the balance again at the same instant.
Fetch ==
    /\ pc = "fetch"
    /\ LET records == get_locked_balances(ledger)
           spoiled == Spoil(first, ledger, TRUE)
       IN  \E a \in AvailOutcomes, l \in LockedOutcomes :
             IF a.st = "raise" \/ l = "raise"
             THEN /\ avail' = IF a.st = "raise" THEN avail ELSE a.v
                  /\ pc' = "except"
                  /\ errAt' = "fetch"
                  /\ calls' = <<>>
                  /\ fault' = TRUE
                  /\ first' = spoiled
                  /\ UNCHANGED <<locked, soonest, soonest_balance_id>>
             ELSE /\ avail' = a.v
                  /\ locked' = IF l = "ok" THEN records ELSE <<>>
                  /\ IF a.v > DustThreshold
                     THEN \E c \in forward_all(FALSE, {a.v}, SAFE_WALLET, sponsor_kp, DRY_RUN) :
                             /\ calls' = <<c>>
                             /\ pc' = IF c.exc THEN "except" ELSE "scan"
                             /\ errAt' = IF c.exc THEN "forward" ELSE "none"
                             /\ fault' = (a.st # "ok" \/ l # "ok" \/ c.fault)
                             /\ soonest' = IF c.exc THEN soonest ELSE ResetSoonest(soonest)
                             /\ soonest_balance_id' = IF c.exc THEN soonest_balance_id ELSE 0
                     ELSE /\ calls' = <<>>
                          /\ pc' = "scan"
                          /\ errAt' = "none"
                          /\ fault' = (a.st # "ok" \/ l # "ok")
                          /\ soonest' = ResetSoonest(soonest)
                          /\ soonest_balance_id' = 0
                  /\ first' = IF fault' THEN spoiled ELSE first
    /\ i' = 1
    /\ UNCHANGED <<sponsor_kp, DRY_RUN, ledger, attempted, slept, account,
                   seconds, text>>

\* Mutant: every balance inside the 30 s horizon is struck.
Strikes_Armed(b) == b.unlock_time # NoneT /\ b.unlock_time <= ArmThreshold

\* The for loop is at a balance it strikes: unlock_time known, delta <= 30
\* and delta <= 0.5.
Strikes(b) ==
    /\ b.unlock_time # NoneT
    /\ b.unlock_time <= ArmThreshold
    /\ b.unlock_time <= StrikeThreshold

\* One iteration of the for loop that calls lightning_claim_and_forward.
Strike ==
    /\ pc = "scan"
    /\ i <= Len(locked)
    /\ Strikes(locked[i])
    /\ LET b == locked[i]
       IN  \E cs \in lightning_claim_and_forward(b.balance_id, b.amt, b.unlock_time,
                                                 SAFE_WALLET, sponsor_kp, DRY_RUN) :
              /\ calls' = cs
              /\ fault' = cs[1].fault
              /\ attempted' = attempted \cup {b.balance_id}
              /\ ledger' = AfterCalls(ledger, cs)
              /\ first' = Spoil(IF first[b.balance_id] = NoneT
                                THEN [first EXCEPT ![b.balance_id] = b.unlock_time]
                                ELSE first,
                                ledger', cs[1].fault)
              /\ pc' = IF cs[1].exc THEN "except" ELSE "scan"
              /\ errAt' = IF cs[1].exc THEN "claim" ELSE "none"
              /\ i' = IF cs[1].exc THEN i ELSE i + 1
    /\ avail' = 0
    /\ UNCHANGED <<sponsor_kp, DRY_RUN, locked, soonest, soonest_balance_id, slept,
                   account, seconds, text>>

\* One iteration of the for loop that does not strike: a balance without
\* unlock time is passed over, one with delta > 0 is a candidate for soonest.
Track ==
    /\ pc = "scan"
    /\ i <= Len(locked)
    /\ ~Strikes(locked[i])
    /\ LET b == locked[i]
           better == /\ b.unlock_time # NoneT
                     /\ b.unlock_time > 0
                     /\ (soonest = NoneT \/ b.unlock_time < soonest)
       IN  /\ soonest' = IF better THEN b.unlock_time ELSE soonest
           /\ soonest_balance_id' = IF better THEN b.balance_id ELSE soonest_balance_id
    /\ i' = i + 1
    /\ calls' = <<>>
    /\ fault' = FALSE
    /\ avail' = 0
    /\ UNCHANGED <<sponsor_kp, DRY_RUN, ledger, pc, locked, attempted, errAt,
                   slept, first, account, seconds, text>>

\* Mutant: the 1 s polling is lost, the loop polls every 5 s up to 60 s.
SleepInterval_Coarse(s) ==
    IF s # NoneT
    THEN (IF Max(0, s) <= SpeedLimit THEN SpeedSleep ELSE IdleSleep)
    ELSE IdleSleep

\* The interval main sleeps after the for loop, given soonest:
\* sleep_secs = max(0, soonest - current_time), then 1 s, 5 s or 30 s.
SleepInterval(s) ==
    IF s # NoneT
    THEN (IF Max(0, s) <= LightningLimit THEN LightningSleep
          ELSE IF Max(0, s) <= SpeedLimit THEN SpeedSleep
          ELSE IdleSleep)
    ELSE IdleSleep

\* The for loop is over: sleep, then the next cycle.  locked is assigned by
\* the next cycle before it is read; it is forgotten here.
Sleep ==
    /\ pc = "scan"
    /\ i > Len(locked)
    /\ slept' = SleepInterval(soonest)
    /\ ledger' = Elapse(ledger, SleepInterval(soonest))
    /\ pc' = "fetch"
    /\ avail' = 0
    /\ locked' = <<>>
    /\ calls' = <<>>
    /\ fault' = FALSE
    /\ attempted' = {}
    /\ UNCHANGED <<sponsor_kp, DRY_RUN, i, soonest, soonest_balance_id, errAt, first,
                   account, seconds, text>>

\* Mutant: the exception is not caught and main ends.
Backoff_Exit ==
    /\ pc = "except"
    /\ pc' = "exit"
    /\ UNCHANGED <<sponsor_kp, DRY_RUN, ledger, avail, locked, i, soonest,
                   soonest_balance_id, calls, fault, attempted, errAt, slept, first,
                   account, seconds, text>>

\* except Exception: sleep 30 s, then the next cycle.
Backoff ==
    /\ pc = "except"
    /\ slept' = BackoffSleep
    /\ ledger' = Elapse(ledger, BackoffSleep)
    /\ pc' = "fetch"
    /\ avail' = 0
    /\ locked' = <<>>
    /\ calls' = <<>>
    /\ fault' = FALSE
    /\ attempted' = {}
    /\ UNCHANGED <<sponsor_kp, DRY_RUN, i, soonest, soonest_balance_id, errAt, first,
                   account, seconds, text>>

\* Whether a first attempt inside the strike window is still due at the start.
FirstAtStart(b) ==
    IF b.present /\ UnlockDelta(b) # NoneT /\ UnlockDelta(b) <= 0 - StrikeThreshold
    THEN Excused ELSE NoneT

\* main before its first cycle.
InitMain ==
    /\ pc = "fetch"
    /\ avail = 0
    /\ locked = <<>>
    /\ i = 1
    /\ soonest = NoneT
    /\ soonest_balance_id = 0
    /\ calls = <<>>
    /\ fault = FALSE
    /\ attempted = {}
    /\ errAt = "none"
    /\ slept = 0
    /\ first = [id \in BalanceIds |-> FirstAtStart(ledger[id])]
    /\ account = NoAccount

Init ==
    /\ \/ /\ sponsor_kp \in BOOLEAN
          /\ DRY_RUN \in BOOLEAN
          /\ ledger \in InitLedgers(AmountBalances, OtherBalances)
       \/ /\ sponsor_kp = FALSE
          /\ DRY_RUN = FALSE
          /\ ledger \in InitLedgers(TimingBalances, OtherBalances)
    /\ InitMain
    /\ seconds = 0
    /\ text = <<>>

Next == Fetch \/ Strike \/ Track \/ Sleep \/ Backoff

Spec == Init /\ [][Next]_vars

\* The loop is the only thread and every call in it returns or raises within
\* its timeout, so a step that can be taken is taken.
LiveBalances == {Balance(10000000, u) : u \in {22, 241, NoneT}}

LiveOthers == {Absent, Balance(10000000, 1)}

LiveInit ==
    /\ sponsor_kp = FALSE
    /\ DRY_RUN = FALSE
    /\ ledger \in InitLedgers(LiveBalances, LiveOthers)
    /\ InitMain
    /\ seconds = 0
    /\ text = <<>>

FairSpec == LiveInit /\ [][Next]_vars /\ WF_vars(Next)

\* Ledgers whose first record takes every shape of claimant predicates: one
\* claimant with any predicate, or two claimants with the usual ones.  An
\* "and" predicate holds any list of up to MaxBranches of the usual
\* conditions, or an empty timestamp or a nested "and" before a deadline.
Branches ==
    {Not(Before("T")), Not(Before("T2")), Not(Before("bad")), Before("T"),
     Unconditional}

AndLists ==
    UNION {[1..n -> Branches] : n \in 0..MaxBranches}
    \cup {<<Not(Before("")), Not(Before("T"))>>,
          <<And(<<Not(Before("T2"))>>), Not(Before("T"))>>,
          <<And(<<Not(Before("T"))>>)>>}

Predicates ==
    {Unconditional, Not(Unconditional), Not(And(<<Before("T")>>)),
     Or(<<Not(Before("T")), Unconditional>>)}
    \cup {Before(t) : t \in Timestamps}
    \cup {Not(Before(t)) : t \in Timestamps}
    \cup {And(ps) : ps \in AndLists}

TwoClaimants ==
    {Not(Before("T")), Not(Before("T2")), Not(Before("bad")), Unconditional}

ClaimantLists ==
    {<<p>> : p \in Predicates} \cup {<<p, q>> : p, q \in TwoClaimants}

ParseBalances ==
    {Claimable(10000000, u, cl) : u \in {1, 22}, cl \in ClaimantLists}

ParseOthers == {Absent, Balance(10000000, 1)}

ParseInit ==
    /\ sponsor_kp = FALSE
    /\ DRY_RUN = FALSE
    /\ ledger \in InitLedgers(ParseBalances, ParseOthers)
    /\ InitMain
    /\ seconds = 0
    /\ text = <<>>

ParseSpec == ParseInit /\ [][Next]_vars

\* format_time_remaining on its own: it is applied once to a number of
\* seconds drawn at the start; main has not started.
FormatInputs ==
    ((0 - 5)..MaxSeconds)
    \cup {3599, 3600, 3601, 3661, 7322, 86399, 86400, 86401, 86460, 90000,
          90061, 172801, 176400, 8640000}

Format ==
    /\ text = <<>>
    /\ text' = format_time_remaining(seconds)
    /\ UNCHANGED <<sponsor_kp, DRY_RUN, ledger, pc, avail, locked, i, soonest,
                   soonest_balance_id, calls, fault, attempted, errAt, slept, first,
                   account, seconds>>

FormatInit ==
    /\ sponsor_kp = FALSE
    /\ DRY_RUN = FALSE
    /\ ledger = [id \in BalanceIds |-> Absent]
    /\ InitMain
    /\ seconds \in FormatInputs
    /\ text = <<>>

FormatNext == Format

FormatSpec == FormatInit /\ [][FormatNext]_vars

\* get_available_balance and forward_all on their own: the balance is read
\* once from an account Horizon reports, then forward_all is called with the
\* balance as read; main has not started.
ReadBalance ==
    /\ account.st = "none"
    /\ \E d \in Accounts, st \in {"ok", "non200"} :
          /\ account' = [st |-> st, data |-> d]
          /\ avail' = IF st = "ok" THEN spendable(d) ELSE 0
    /\ UNCHANGED <<sponsor_kp, DRY_RUN, ledger, pc, locked, i, soonest,
                   soonest_balance_id, calls, fault, attempted, errAt, slept, first,
                   seconds, text>>

ForwardBalance ==
    /\ account.st # "none"
    /\ calls = <<>>
    /\ \E c \in forward_all(FALSE, {avail}, SAFE_WALLET, sponsor_kp, DRY_RUN) :
          /\ calls' = <<c>>
          /\ fault' = c.fault
    /\ UNCHANGED <<sponsor_kp, DRY_RUN, ledger, pc, avail, locked, i, soonest,
                   soonest_balance_id, attempted, errAt, slept, first,
                   account, seconds, text>>

BalanceInit ==
    /\ sponsor_kp \in BOOLEAN
    /\ DRY_RUN \in BOOLEAN
    /\ ledger = [id \in BalanceIds |-> Absent]
    /\ InitMain
    /\ seconds = 0
    /\ text = <<>>

BalanceNext == ReadBalance \/ ForwardBalance

BalanceSpec == BalanceInit /\ [][BalanceNext]_vars

(* ---------------- properties ---------------- *)

LastCalls == {calls[k] : k \in 1..Len(calls)}

LightningCalls == {c \in LastCalls : c.fn = "lightning"}

ForwardCalls == {c \in LastCalls : c.fn = "forward_all"}

\* The for loop of this cycle is over and main is about to sleep.
ScanDone == pc = "scan" /\ i > Len(locked)

\* round(a - max(0.01, 0.05 * a), 6) in stroops, as the forward-amount policy
\* states it; round of a negative value is rounded on its absolute value.
PolicyAmount(a) ==
    LET x20 == 20 * a - (IF 2000000 >= a THEN 2000000 ELSE a)
    IN  IF x20 >= 0 THEN Round6(x20, 20) ELSE 0 - Round6(0 - x20, 20)

\* C1: whenever lightning_claim_and_forward builds a transaction with the
\* claim amount known (> 0), the transaction is exactly the claim of the given
\* balance followed by a payment of the forward amount to the destination;
\* the claim-only transaction is built only when the amount lookup failed.
C1_AtomicClaimForward ==
    \A c \in LightningCalls :
        c.tx # <<>> =>
            /\ c.tx[1].ops[1] = [type |-> "claim", balance_id |-> c.id,
                                 destination |-> "", amount |-> 0]
            /\ c.id \in attempted
            /\ c.amount > 0 =>
                  /\ Len(c.tx[1].ops) = 2
                  /\ c.tx[1].ops[2].type = "payment"
                  /\ c.tx[1].ops[2].destination = SAFE_WALLET
                  /\ c.tx[1].ops[2].amount = PolicyAmount(c.amount)
            /\ Len(c.tx[1].ops) = 1 => (c.amount = 0 /\ c.info \in LookupFailures)
            /\ Len(c.tx[1].ops) \in {1, 2}

\* C1 witness: a claim+forward transaction of a known amount was submitted.
C1_Witness ==
    \E c \in LightningCalls :
        c.amount > 0 /\ c.tx # <<>> /\ c.tx[1].submitted /\ Len(c.tx[1].ops) = 2

\* C2: when a cycle is over (the for loop ended, or a claim attempt raised),
\* every fetched balance with a known unlock time and delta <= 0.5 has been
\* handed to lightning_claim_and_forward in that cycle.
C2_EveryStrikeAttempted ==
    (ScanDone \/ (pc = "except" /\ errAt = "claim")) =>
        \A j \in 1..Len(locked) :
            (locked[j].unlock_time # NoneT /\ locked[j].unlock_time <= 2)
                => locked[j].balance_id \in attempted

\* C3: the loop never stops on a failure inside a cycle: an exception raised
\* in a cycle leads to the 30 s backoff and then to the start of a new cycle,
\* and a new cycle begins again and again whatever happens.
C3_LoopNeverStops ==
    /\ []<>(pc = "fetch")
    /\ (pc = "except") ~> (pc = "fetch" /\ slept = 30 * 4 /\ errAt # "none")

\* C3 witness: a new cycle is about to start after a claim attempt raised.
C3_Witness == pc = "fetch" /\ errAt = "claim" /\ slept = 30 * 4

\* The state right after the head of a cycle that read avail > 0.01.
AfterFetchAboveDust == pc \in {"scan", "except"} /\ avail > 100000

\* The only call of the last step is main's own forward_all.
ForwardInvoked ==
    Len(calls) = 1 /\ calls[1].fn = "forward_all" /\ ~calls[1].nested

\* The forward_all of the last step built a single payment to the safe
\* wallet, submitted unless DRY_RUN.
ForwardBuilt ==
    /\ calls[1].tx # <<>>
    /\ Len(calls[1].tx[1].ops) = 1
    /\ calls[1].tx[1].ops[1].type = "payment"
    /\ calls[1].tx[1].ops[1].destination = SAFE_WALLET
    /\ calls[1].tx[1].submitted = ~DRY_RUN

C5_FirstStrikeInWindow ==
    \A id \in BalanceIds :
        (first[id] # NoneT /\ first[id] # Excused) => (first[id] > -2 /\ first[id] <= 2)

\* C5 witness: a balance the loop approached with 1 s sleeps, no call having
\* failed, gets its first attempt 0.25 s before its unlock time.
C5_Witness ==
    /\ first[1] = 1
    /\ slept = 4
    /\ \E c \in LightningCalls : c.id = 1 /\ c.delta = 1 /\ c.result = "success"

\* C6: a balance is handed to lightning_claim_and_forward in a cycle only if
\* its unlock time is known and its delta is <= 0.5; for any other fetched
\* balance the cycle makes no claim attempt and builds no transaction.
C6_OnlyStrikeInWindow ==
    /\ \A id \in attempted :
          \E j \in 1..Len(locked) :
              /\ locked[j].balance_id = id
              /\ locked[j].unlock_time # NoneT
              /\ locked[j].unlock_time <= 2
    /\ \A j \in 1..Len(locked) :
          (locked[j].unlock_time = NoneT \/ locked[j].unlock_time > 2) =>
              /\ locked[j].balance_id \notin attempted
              /\ \A c \in LastCalls :
                    /\ c.id # locked[j].balance_id
                    /\ \A k \in 1..Len(c.tx) : \A o \in 1..Len(c.tx[k].ops) :
                          c.tx[k].ops[o].balance_id # locked[j].balance_id
    /\ \A c \in LightningCalls : c.id \in attempted /\ c.delta # NoneT /\ c.delta <= 2

\* C6 witness: the for loop ended having struck one balance and passed over
\* an ARMED one (0.5 < delta <= 30).
C6_Witness ==
    /\ ScanDone
    /\ attempted # {}
    /\ \E j \in 1..Len(locked) :
          /\ locked[j].unlock_time > 2
          /\ locked[j].unlock_time <= 120
          /\ locked[j].balance_id \notin attempted

\* The state right after the sleep that ends a cycle without exception.
AfterSleep == pc = "fetch" /\ slept # 0 /\ errAt = "none"

\* C7: after a cycle that raised nothing, the sleep is 1 s when the soonest
\* remaining time is <= 10 s, 5 s when it is <= 60 s, 30 s beyond, and 30 s
\* when no soonest unlock was selected.
C7_SleepInterval ==
    AfterSleep =>
        slept = (IF soonest = NoneT THEN 30 * 4
                 ELSE IF soonest <= 10 * 4 THEN 1 * 4
                 ELSE IF soonest <= 60 * 4 THEN 5 * 4
                 ELSE 30 * 4)

\* C7 witness: a cycle whose soonest unlock was 45 s away slept 5 s.
C7_Witness == AfterSleep /\ soonest = 45 * 4 /\ slept = 5 * 4

\* The deltas of the fetched balances whose unlock time is known and ahead.
FutureDeltas ==
    {locked[j].unlock_time : j \in {k \in 1..Len(locked) :
        locked[k].unlock_time # NoneT /\ locked[k].unlock_time > 0}}

\* C8 as claimed: when the for loop is over, soonest is the least unlock time
\* over all fetched balances with a known unlock time and delta > 0, struck
\* ones included, and it is None only when there is no such balance.
C8_SoonestIsLeastFuture ==
    ScanDone =>
        IF FutureDeltas = {} THEN soonest = NoneT
        ELSE soonest \in FutureDeltas /\ \A d \in FutureDeltas : soonest <= d

\* C9: in lightning_claim_and_forward, a known claim amount a > 0 gives a
\* payment of round(a - max(0.01, 0.05 * a), 6); when that is <= 0 nothing is
\* built, so no transaction carries a zero or negative payment.
C9_ForwardAmountPolicy ==
    \A c \in LightningCalls :
        /\ (c.amount > 0 /\ PolicyAmount(c.amount) <= 0) => c.tx = <<>>
        /\ (c.amount > 0 /\ c.tx # <<>>) =>
              /\ Len(c.tx[1].ops) = 2
              /\ c.tx[1].ops[2].amount = PolicyAmount(c.amount)
        /\ (c.amount = 100000000 /\ c.tx # <<>>) => c.tx[1].ops[2].amount = 95000000
        /\ (c.amount = 10000000 /\ c.tx # <<>>) => c.tx[1].ops[2].amount = 9500000
        /\ (c.amount = 1000000 /\ c.tx # <<>>) => c.tx[1].ops[2].amount = 900000
        /\ c.amount = 50000 => c.tx = <<>>
        /\ \A k \in 1..Len(c.tx) : \A o \in 1..Len(c.tx[k].ops) :
              c.tx[k].ops[o].type = "payment" => c.tx[k].ops[o].amount > 0

\* C9 witness: a claim of 0.1 Pi was submitted with a payment of 0.09 Pi.
C9_Witness ==
    \E c \in LightningCalls :
        /\ c.amount = 1000000
        /\ c.tx # <<>>
        /\ c.tx[1].submitted
        /\ c.tx[1].ops[2].amount = 900000

\* C10 as claimed: every payment forward_all builds for a spendable amount a
\* is round(a - max(0.01, 0.05 * a), 6).
C10_ForwardAllFollowsPolicy ==
    \A c \in ForwardCalls :
        c.tx # <<>> => c.tx[1].ops[1].amount = PolicyAmount(c.amount)

\* C10 amended: forward_all forwards round(0.95 * a, 6) of a spendable amount
\* a > 0.02, which is the policy amount only from a = 0.2 up (1.0 forwards
\* 0.95, 0.1 forwards 0.095), and the whole of a when a sponsor key is
\* supplied and a < 0.02.
C10_ForwardAllAmount ==
    \A c \in ForwardCalls :
        c.tx # <<>> =>
            /\ c.amount > 100000
            /\ c.tx[1].ops[1].amount =
                  (IF sponsor_kp /\ c.amount < 200000 THEN c.amount
                   ELSE Round6(19 * c.amount, 20))
            /\ c.tx[1].ops[1].amount > 0
            /\ c.amount >= 2000000 => c.tx[1].ops[1].amount = PolicyAmount(c.amount)
            /\ c.amount = 10000000 => c.tx[1].ops[1].amount = 9500000
            /\ (c.amount = 1000000) => c.tx[1].ops[1].amount = 950000

\* C10 witness: forward_all forwarded 0.095 Pi of a spendable 0.1 Pi.
C10_Witness ==
    \E c \in ForwardCalls :
        c.amount = 1000000 /\ c.tx # <<>> /\ c.tx[1].ops[1].amount = 950000

\* C11: with the dry-run flag set no transaction is submitted: every
\* transaction forward_all or lightning_claim_and_forward built is signed and
\* was not handed to submit_transaction, no call has a submission outcome,
\* and the claim-only fallback does not run its follow-up forward_all.
C11_DryRunNeverSubmits ==
    DRY_RUN =>
        \A c \in LastCalls :
            /\ c.result = "none"
            /\ ~c.nested
            /\ \A k \in 1..Len(c.tx) :
                  ~c.tx[k].submitted /\ c.tx[k].signers # <<>>

\* A dry run in which the claim-only transaction was built and signed.
C11_Witness ==
    /\ DRY_RUN
    /\ \E c \in LightningCalls : c.amount = 0 /\ Len(c.tx) = 1 /\ Len(calls) = 1

\* C12 as stated: every transaction that reaches the dry-run/submit step is
\* signed by the primary key and, whenever a sponsor key is supplied, also by
\* the sponsor key, whatever its shape.
C12_SponsorCoSignsAll ==
    \A c \in LastCalls : \A k \in 1..Len(c.tx) :
        /\ Head(c.tx[k].signers) = "kp"
        /\ sponsor_kp => \E n \in 1..Len(c.tx[k].signers) : c.tx[k].signers[n] = "sponsor"

\* C12 amended: every transaction that reaches the dry-run/submit step is
\* signed by the primary key first.  With a sponsor key supplied the
\* claim+forward, claim-only and sponsored forward (balance below 0.02)
\* transactions are co-signed by the sponsor key; the normal forward of
\* forward_all is signed by the primary key alone.  Without a sponsor key the
\* primary key is the only signer.  The operations of the claim+forward,
\* claim-only and normal forward transactions do not depend on the sponsor.
C12_Signing ==
    \A c \in LastCalls : \A k \in 1..Len(c.tx) :
        /\ c.tx[k].signers =
              IF sponsor_kp /\ (c.fn = "lightning" \/ c.amount < SponsorLimit)
              THEN <<"kp", "sponsor">> ELSE <<"kp">>
        /\ c.fn = "lightning" =>
              c.tx[k].ops = LightningTx(c.id, SAFE_WALLET, c.amount, ~sponsor_kp).ops
        /\ c.fn = "forward_all" /\ c.amount >= SponsorLimit =>
              c.tx[k].ops = <<PaymentOp(SAFE_WALLET, NormalForwardAmount(c.amount))>>

\* A sponsor key is supplied and forward_all built its normal forward, signed
\* by the primary key alone.
C12_Witness ==
    /\ sponsor_kp
    /\ \E c \in ForwardCalls :
          c.amount > SponsorLimit /\ Len(c.tx) = 1 /\ c.tx[1].signers = <<"kp">>

\* The timestamps written anywhere inside predicate p.
RECURSIVE Stamps(_)
Stamps(p) ==
    IF p[1] = "abs_before" THEN {p[2]}
    ELSE IF p[1] = "not" THEN Stamps(p[2])
    ELSE IF p[1] \in {"and", "or"} THEN UNION {Stamps(p[2][k]) : k \in 1..Len(p[2])}
    ELSE {}

\* No claimant predicate of record b holds a deadline that can be parsed.
Undated(b) ==
    b.present /\ \A k \in 1..Len(b.claimants) : Stamps(b.claimants[k]) \cap WellFormed = {}

\* C13: a claimable balance none of whose claimant predicates holds a
\* deadline, or whose deadline cannot be parsed, is given unlock_time None by
\* get_locked_balances, and in no cycle is it armed or struck, handed to
\* lightning_claim_and_forward, or taken as the soonest balance.
C13_UndatedNeverScheduled ==
    \A id \in BalanceIds :
        Undated(ledger[id]) =>
            /\ \A j \in 1..Len(locked) :
                  locked[j].balance_id = id =>
                      locked[j].unlock_time = NoneT /\ ~Strikes(locked[j])
            /\ id \notin attempted
            /\ first[id] = NoneT
            /\ soonest_balance_id # id
            /\ \A c \in LightningCalls : c.id # id

\* The for loop went over a record whose only deadline cannot be parsed and
\* struck the other balance.
C13_Witness ==
    /\ ScanDone
    /\ ledger[1].claimants = <<Not(Before("bad"))>>
    /\ Len(locked) >= 1
    /\ locked[1].balance_id = 1
    /\ locked[1].unlock_time = NoneT
    /\ attempted = {2}

\* C14: for an "and" predicate the extracted deadline is that of the first
\* condition, in order, that is a negated abs_before, and equals the deadline
\* extracted from that condition given alone as the predicate; without such
\* a condition no deadline is extracted.  The unlock_time get_locked_balances
\* returns for a record with one claimant is that deadline.
C14_AndTakesFirstNegatedBefore ==
    \A id \in BalanceIds : \A k \in 1..Len(ledger[id].claimants) :
        LET p == ledger[id].claimants[k]
            hits == {n \in 1..Len(p[2]) :
                        p[2][n][1] = "not" /\ p[2][n][2][1] = "abs_before"}
            n1 == CHOOSE n \in hits : \A m \in hits : n <= m
            deadline == IF hits = {} THEN "" ELSE p[2][n1][2][2]
        IN  p[1] = "and" =>
              /\ abs_before(p) = deadline
              /\ hits # {} => abs_before(p) = abs_before(p[2][n1])
              /\ Len(ledger[id].claimants) = 1 /\ pc = "scan" /\ i = 1 =>
                    \A j \in 1..Len(locked) :
                        locked[j].balance_id = id =>
                            locked[j].unlock_time =
                                IF deadline \in WellFormed
                                THEN DeltaOf(ledger[id], deadline) ELSE NoneT

\* A record whose "and" predicate holds two negated abs_before conditions
\* was fetched with the deadline of the first one.
C14_Witness ==
    /\ ledger[1].claimants = <<And(<<Not(Before("T2")), Not(Before("T"))>>)>>
    /\ pc = "scan" /\ i = 1
    /\ Len(locked) >= 1
    /\ locked[1].balance_id = 1
    /\ locked[1].unlock_time = Max(ledger[1].unlock - EarlierBy, 0 - MaxPast)
    /\ locked[1].unlock_time # ledger[1].unlock

\* C15: for every account get_available_balance reads, the spendable balance
\* is never negative and equals total - reserve whenever that is not
\* negative, with reserve = 2 * 0.5 + (signers - 1 + num_subentries) * 0.5;
\* a non-200 answer or a failed request gives a spendable balance of 0.
C15_SpendableBalance ==
    /\ avail >= 0
    /\ account.st = "ok" =>
          LET d == account.data
              reserve == 2 * 5000000 + (d.signers - 1 + d.num_subentries) * 5000000
          IN  avail = IF d.total_balance - reserve >= 0
                      THEN d.total_balance - reserve ELSE 0
    /\ account.st = "non200" => avail = 0

\* An account with two signers and one subentry holding 2.015 Pi was read:
\* 2.0 Pi are reserved and 0.015 Pi is spendable.
C15_Witness ==
    /\ account.st = "ok"
    /\ account.data = Account(20150000, 2, 1)
    /\ avail = 150000

\* Indices of the balances of this cycle's fetch the for loop has gone over
\* and kept as candidates for soonest: unlock time known, not struck.
Tracked ==
    {j \in 1..Len(locked) :
        j < i /\ locked[j].unlock_time # NoneT /\ locked[j].unlock_time > StrikeThreshold}

\* C16: a failed fetch of the locked balances gives the empty sequence, and
\* in that cycle nothing is attempted and nothing is selected.  In every
\* cycle soonest and soonest_balance_id start as None and are selected from
\* the balances of the cycle's own fetch only: nothing of an earlier cycle is
\* carried over.
C16_FreshSelection ==
    pc = "scan" =>
        /\ i = 1 =>
              /\ locked \in {<<>>, get_locked_balances(ledger)}
              /\ soonest = NoneT
              /\ soonest_balance_id = 0
        /\ locked = <<>> =>
              /\ attempted = {}
              /\ LightningCalls = {}
              /\ soonest = NoneT
              /\ soonest_balance_id = 0
        /\ attempted \subseteq {locked[j].balance_id : j \in 1..Len(locked)}
        /\ IF Tracked = {}
           THEN soonest = NoneT /\ soonest_balance_id = 0
           ELSE /\ \A j \in Tracked : soonest <= locked[j].unlock_time
                /\ \E j \in Tracked :
                      /\ soonest = locked[j].unlock_time
                      /\ soonest_balance_id = locked[j].balance_id

\* The cycle before selected a balance less than 10 s from its unlock time
\* and slept 1 s; in this cycle the fetch failed while the balance is still
\* on the ledger, and nothing is selected.
C16_Witness ==
    /\ ScanDone
    /\ locked = <<>>
    /\ slept = LightningSleep
    /\ errAt = "none"
    /\ \E id \in BalanceIds : ledger[id].present /\ ledger[id].unlock > StrikeThreshold
    /\ soonest = NoneT
    /\ soonest_balance_id = 0

\* The transactions built by the calls of the last step.
LastTxs == UNION {{c.tx[k] : k \in 1..Len(c.tx)} : c \in LastCalls}

\* C17 as stated: a transaction of two operations has a higher base fee and
\* a higher timeout than every transaction of one operation: whatever the
\* one-operation transaction, its fee is below 300000 stroops and its timeout
\* below 15 s, the fee and timeout of the claim+forward transaction.
C17_TwoOpsAboveEveryOneOp ==
    \A tx \in LastTxs :
        /\ Len(tx.ops) = 2 => tx.base_fee = 300000 /\ tx.timeout = 15
        /\ Len(tx.ops) = 1 => tx.base_fee < 300000 /\ tx.timeout < 15

\* C17 amended: the claim+forward transaction (two operations) has a higher
\* base fee than every one-operation transaction, and a higher timeout than
\* the claim-only transaction; the forward and sponsored forward
\* transactions have a timeout of 30 s, above the 15 s of claim+forward.
C17_FeeAndTimeout ==
    \A tx \in LastTxs :
        /\ Len(tx.ops) \in {1, 2}
        /\ Len(tx.ops) = 2 =>
              /\ tx.ops[1].type = "claim" /\ tx.ops[2].type = "payment"
              /\ tx.base_fee = 300000
              /\ tx.timeout = 15
        /\ Len(tx.ops) = 1 /\ tx.ops[1].type = "claim" =>
              tx.base_fee = 200000 /\ tx.timeout = 10
        /\ Len(tx.ops) = 1 /\ tx.ops[1].type = "payment" =>
              tx.base_fee = 100000 /\ tx.timeout = 30

\* A step in which a claim+forward transaction was built.
C17_Witness ==
    \E c \in LightningCalls :
        /\ Len(c.tx) = 1
        /\ Len(c.tx[1].ops) = 2
        /\ c.tx[1].base_fee = 300000
        /\ c.tx[1].timeout = 15

\* C18: every payment amount placed in a built transaction is a value
\* rounded to 6 decimal places, that is a multiple of 10 stroops, whatever
\* balance the ledger reports, and rounding it again leaves it unchanged.
C18_PaymentsRounded ==
    \A tx \in LastTxs : \A k \in 1..Len(tx.ops) :
        tx.ops[k].type = "payment" =>
            /\ tx.ops[k].amount % 10 = 0
            /\ Round6(tx.ops[k].amount, 1) = tx.ops[k].amount

\* What C19 asks of one step, calls' being the calls the step made.
ForwardOnlyAfterClaim ==
    /\ \A k \in 1..Len(calls') :
          calls'[k].nested =>
              /\ k = 2
              /\ calls'[1].fn = "lightning"
              /\ calls'[1].amount = 0
              /\ calls'[1].tx[1].ops = <<ClaimOp(calls'[1].id)>>
              /\ calls'[1].tx[1].submitted
              /\ calls'[1].result = "success"
              /\ ledger' = Elapse([ledger EXCEPT ![calls'[1].id] = Absent], 4)
    /\ \A k \in 1..Len(calls') :
          calls'[k].fn = "lightning" /\ calls'[k].result \in {"failed", "raise"} =>
              /\ Len(calls') = 1
              /\ ledger[calls'[k].id].present
              /\ ledger' = ledger
              /\ pc' = "scan"

\* C19: the claim-only fallback calls forward_all only after its claim was
\* submitted with success, and after a pause of 1 s; when the submission of
\* a claim fails or raises, that attempt calls no forward_all, the balance
\* stays on the ledger as it was, for the attempt of a later cycle, and the
\* for loop goes on.
C19_ForwardOnlyAfterClaim == [][ForwardOnlyAfterClaim]_vars

\* The claim-only fallback claimed with success and its forward_all built a
\* payment.
C19_Witness ==
    /\ Len(calls) = 2
    /\ calls[1].fn = "lightning" /\ calls[1].amount = 0 /\ calls[1].result = "success"
    /\ calls[2].nested /\ Len(calls[2].tx) = 1

\* The units format_time_remaining prints, largest first, and their weights
\* in seconds.
Units == <<"d", "h", "m", "s">>

Weight(unit) ==
    IF unit = "d" THEN 86400 ELSE IF unit = "h" THEN 3600
    ELSE IF unit = "m" THEN 60 ELSE 1

RECURSIVE WeightedSum(_)
WeightedSum(parts) ==
    IF parts = <<>> THEN 0
    ELSE Head(parts).n * Weight(Head(parts).unit) + WeightedSum(Tail(parts))

\* C20: format_time_remaining returns READY NOW for every seconds <= 0; for
\* every positive whole number of seconds it prints days, hours, minutes and
\* seconds whose weighted sum is the input, starting at the largest unit
\* that is not zero and going through every smaller unit down to seconds,
\* zero or not; 90061 gives 1d 1h 1m 1s.
C20_FormatTimeRemaining ==
    text # <<>> =>
        /\ seconds <= 0 => text = <<[n |-> 0, unit |-> "READY NOW!"]>>
        /\ seconds > 0 =>
              /\ \E k \in 1..4 :
                    /\ Len(text) = 5 - k
                    /\ \A j \in 1..Len(text) : text[j].unit = Units[k + j - 1]
              /\ text[1].n > 0
              /\ \A j \in 2..Len(text) :
                    /\ text[j].n >= 0
                    /\ text[j].n * Weight(text[j].unit) < Weight(text[j - 1].unit)
              /\ WeightedSum(text) = seconds
        /\ seconds = 90061 =>
              text = <<[n |-> 1, unit |-> "d"], [n |-> 1, unit |-> "h"],
                       [n |-> 1, unit |-> "m"], [n |-> 1, unit |-> "s"]>>

\* 172801 s was formatted as 2d 0h 0m 1s.
C20_Witness ==
    /\ seconds = 172801
    /\ text = <<[n |-> 2, unit |-> "d"], [n |-> 0, unit |-> "h"],
                [n |-> 0, unit |-> "m"], [n |-> 1, unit |-> "s"]>>

====
